---- MODULE Spec2Model ----
(***************************************************************************)
(* Model of the Groq API nodes of ComfyUI-mnemic-nodes:                    *)
(*   src/nodes/groq_api_llm.py  (class GroqAPILLM)                         *)
(*   src/nodes/groq_api_vlm.py  (class GroqAPIVLM)                         *)
(* One node instance is modelled: its credential pool, its cursor, its     *)
(* preset mapping, and the position of the running                         *)
(* process_completion_request invocation inside its retry loop.            *)
(* Python strings whose characters the code inspects (the configured key   *)
(* list, the text of a caught error) are sequences of one-character        *)
(* strings; other strings are opaque.                                      *)
(***************************************************************************)
EXTENDS Integers, Sequences, FiniteSets, TLC

\* ------------------------------------------------------------------ bounds
\* longest value of groq_keys in a configuration file
MaxCfgLen == 2
\* largest max_retries a caller passes (the node surface allows 1..10)
MaxRetries == 3
\* invocations start only while fewer than this many rotations have happened
MaxRotations == 2

\* ------------------------------------------------------- character strings
UpperChars == <<"A","B","C","D","E","F","G","H","I","J","K","L","M",
                "N","O","P","Q","R","S","T","U","V","W","X","Y","Z">>
LowerChars == <<"a","b","c","d","e","f","g","h","i","j","k","l","m",
                "n","o","p","q","r","s","t","u","v","w","x","y","z">>

\* str.lower() on one character
LowerChar(c) ==
    IF \E i \in 1..26 : UpperChars[i] = c
    THEN LowerChars[CHOOSE i \in 1..26 : UpperChars[i] = c]
    ELSE c

\* str.lower()
Lower(s) == [i \in 1..Len(s) |-> LowerChar(s[i])]

\* the Python test `needle in hay`
Contains(hay, needle) ==
    \E i \in 0..(Len(hay) - Len(needle)) :
        SubSeq(hay, i + 1, i + Len(needle)) = needle

\* str.strip() (the only whitespace of the modelled alphabet is the blank)
RECURSIVE Strip(_)
Strip(s) ==
    IF s = <<>> THEN s
    ELSE IF Head(s) = " " THEN Strip(Tail(s))
    ELSE IF s[Len(s)] = " " THEN Strip(SubSeq(s, 1, Len(s) - 1))
    ELSE s

\* str.split(','): one more field than there are commas
RECURSIVE Split(_)
Split(s) ==
    IF \A i \in 1..Len(s) : s[i] # ","
    THEN <<s>>
    ELSE LET i == CHOOSE j \in 1..Len(s) :
                      s[j] = "," /\ \A k \in 1..(j - 1) : s[k] # ","
         IN  <<SubSeq(s, 1, i - 1)>> \o Split(SubSeq(s, i + 1, Len(s)))

\* ------------------------------------------------------------ Python values
PyInt(n) == [type |-> "int", value |-> n]
PyStr(s) == [type |-> "str", value |-> s]

\* ----------------------------------------------------------- configuration
CfgChars == {"a", ",", " "}
RECURSIVE StringsUpTo(_)
StringsUpTo(n) ==
    IF n = 0 THEN {<<>>}
    ELSE LET shorter == StringsUpTo(n - 1)
         IN  shorter \cup {Append(s, c) : s \in {t \in shorter : Len(t) = n - 1},
                                          c \in CfgChars}

\* a GroqConfig.ini candidate: absent, or present with or without [API_KEYS]
MissingFile == [exists |-> FALSE, section |-> FALSE, groq_keys |-> <<>>]
ConfigFiles ==
    {MissingFile, [exists |-> TRUE, section |-> FALSE, groq_keys |-> <<>>]}
    \cup {[exists |-> TRUE, section |-> TRUE, groq_keys |-> s] :
              s \in StringsUpTo(MaxCfgLen)}

DefaultApiKey ==
    <<"d","e","f","a","u","l","t","_","a","p","i","_","k","e","y">>

\* load_api_keys: the first existing file with an API_KEYS section decides
RECURSIVE load_api_keys(_)
load_api_keys(config_paths) ==
    IF config_paths = <<>> THEN <<DefaultApiKey>>
    ELSE LET path == Head(config_paths)
         IN  IF path.exists /\ path.section
             THEN LET keys == Split(path.groq_keys)
                  IN  [i \in 1..Len(keys) |-> Strip(keys[i])]
             ELSE load_api_keys(Tail(config_paths))

\* ---------------------------------------------------------------- presets
DEFAULT_PROMPT == "Use [system_message] and [user_input]"
PresetKeys  == {DEFAULT_PROMPT, "p1"}
PresetTexts == {"t1"}
\* preset names a caller passes: the sentinel, a key, a name no file defines
Presets == {DEFAULT_PROMPT, "p1", ""}
SystemMessages == {"sys"}
UserInputs == {"usr"}

EmptyDict == [k \in {} |-> "t1"]
Dicts == UNION {[K -> PresetTexts] : K \in SUBSET PresetKeys}

\* dict.update
Update(d, e) ==
    [k \in (DOMAIN d) \cup (DOMAIN e) |-> IF k \in DOMAIN e THEN e[k] ELSE d[k]]

\* a prompt file: absent, unparsable, or a flat JSON mapping
PromptFiles ==
    {[exists |-> FALSE, valid |-> TRUE, json |-> EmptyDict],
     [exists |-> TRUE, valid |-> FALSE, json |-> EmptyDict]}
    \cup {[exists |-> TRUE, valid |-> TRUE, json |-> d] : d \in Dicts}

RECURSIVE MergePrompts(_, _)
MergePrompts(prompt_files, prompt_options) ==
    IF prompt_files = <<>> THEN prompt_options
    ELSE LET file == Head(prompt_files)
         IN  MergePrompts(Tail(prompt_files),
                          IF file.exists THEN Update(prompt_options, file.json)
                          ELSE prompt_options)

\* load_prompt_options: a file that fails to parse empties the mapping
load_prompt_options(prompt_files) ==
    IF \E i \in 1..Len(prompt_files) :
           prompt_files[i].exists /\ ~prompt_files[i].valid
    THEN EmptyDict
    ELSE MergePrompts(prompt_files, EmptyDict)

\* GroqAPIVLM.get_prompt_content: dict.get(preset, "")
get_prompt_content(options, preset) ==
    IF preset \in DOMAIN options THEN options[preset] ELSE ""

\* utils.api_utils.get_prompt_content, used by GroqAPILLM: empty text when
\* the preset is absent
api_utils_get_prompt_content(options, preset) ==
    IF preset \in DOMAIN options THEN options[preset] ELSE ""

\* ------------------------------------------------------------ remote calls
\* the text the code looks for in a caught error
RateLimitNeedle == <<"r","a","t","e"," ","l","i","m","i","t">>

\* texts of errors raised by the transport (requests.post)
TxtRateLimitMixed == <<"R","a","t","e"," ","L","i","m","i","t"," ","r","e","a","c","h","e","d">>
TxtTimeout == <<"R","e","a","d"," ","t","i","m","e","d"," ","o","u","t">>
\* reason phrases of HTTP error responses
ReasonTooMany == <<"T","o","o"," ","M","a","n","y"," ","R","e","q","u","e","s","t","s">>
ReasonRateLimitUpper == <<"R","A","T","E"," ","L","I","M","I","T">>
ReasonOK == <<"O","K">>
\* text of the error response.json() raises on a body that is not JSON
TxtJsonError == <<"E","x","p","e","c","t","i","n","g"," ","v","a","l","u","e">>

ClientErrorPrefix == <<"C","l","i","e","n","t"," ","E","r","r","o","r",":"," ">>
ForUrlSuffix == <<" ","f","o","r"," ","u","r","l">>
\* str() of the HTTPError built by raise_for_status
HTTPErrorText(reason) == ClientErrorPrefix \o reason \o ForUrlSuffix

\* response bodies: not JSON, JSON without choices[0].message.content, complete
NotJsonBody == [valid_json |-> FALSE, has_content |-> FALSE, content |-> ""]
NoChoicesBody == [valid_json |-> TRUE, has_content |-> FALSE, content |-> ""]
ContentBody(c) == [valid_json |-> TRUE, has_content |-> TRUE, content |-> c]
Contents == {"generated", "created"}

\* what one requests.post call can come back with
TransportErrors ==
    {[type |-> "exc", status |-> 0, reason |-> t, body |-> NotJsonBody] :
         t \in {TxtRateLimitMixed, TxtTimeout}}
OkResponses ==
    {[type |-> "resp", status |-> 200, reason |-> ReasonOK, body |-> b] :
         b \in {NotJsonBody, NoChoicesBody, ContentBody("generated")}}
    \cup {[type |-> "resp", status |-> 201, reason |-> ReasonOK,
           body |-> ContentBody("created")]}
ErrorResponses ==
    {[type |-> "resp", status |-> 429, reason |-> t, body |-> NoChoicesBody] :
         t \in {ReasonTooMany, ReasonRateLimitUpper}}
Responses == TransportErrors \cup OkResponses \cup ErrorResponses

\* Response.raise_for_status raises for 4xx and 5xx
raise_for_status(status) == 400 <= status /\ status < 600

\* a mutation: the test without lower()
IsRateLimit_CaseSensitive(text) == Contains(text, RateLimitNeedle)

\* `'rate limit' in str(e).lower()`
IsRateLimit(text) == Contains(Lower(text), RateLimitNeedle)

\* a mutation: no wrap-around
get_next_api_key_NoWrap(index, keys) == index + 1

\* a mutation: back to the first credential
get_next_api_key_First(index, keys) == 0

\* get_next_api_key: the cursor after one rotation
get_next_api_key(index, keys) == (index + 1) % Len(keys)

\* a mutation: rotate on every caught failure
IndexAfterFailure_Always(index, keys, text) == (index + 1) % Len(keys)

\* the except branch: rotate on a rate-limit text, else keep the credential
IndexAfterFailure(index, keys, text) ==
    IF IsRateLimit(text) THEN get_next_api_key(index, keys) ELSE index

\* the body of the try block for one response: "return" with the content,
\* "caught" (a RequestException, with its text), or "raise" (an exception
\* the except clause does not name).  response.json() on a body that is not
\* JSON raises a RequestException only in requests >= 2.27.
TryOutcome(r, json_error_is_request_exception) ==
    IF r.type = "exc"
    THEN [tag |-> "caught", text |-> r.reason]
    ELSE IF raise_for_status(r.status)
    THEN [tag |-> "caught", text |-> HTTPErrorText(r.reason)]
    ELSE IF ~r.body.valid_json
    THEN IF json_error_is_request_exception
         THEN [tag |-> "caught", text |-> TxtJsonError]
         ELSE [tag |-> "raise", text |-> TxtJsonError]
    ELSE IF ~r.body.has_content
    THEN [tag |-> "raise", text |-> <<>>]
    ELSE [tag |-> "return", text |-> <<>>]

\* a mutation: the content is dropped
SuccessResult_Empty(r) == <<"", TRUE, PyInt(r.status)>>

\* the tuples the handlers return
SuccessResult(r) == <<r.body.content, TRUE, PyInt(r.status)>>
MaxRetriesResult ==
    <<"Max retries reached. Unable to complete the request.", FALSE,
      PyStr("429 Too Many Requests")>>
ImageRequiredResult ==
    <<"Image is required for VLM models.", FALSE, PyStr("400 Bad Request")>>
NoResult == <<"", FALSE, PyStr("")>>

\* ---------------------------------------------------------------- requests
\* system message of the request (GroqAPILLM lines 123-126)
LLMSystemMessage(options, preset, system_message) ==
    IF preset = DEFAULT_PROMPT THEN system_message
    ELSE api_utils_get_prompt_content(options, preset)

\* a mutation: the mapping is consulted before the sentinel test
VLMSystemMessage_LookupFirst(options, preset, system_message) ==
    IF preset \in DOMAIN options THEN options[preset]
    ELSE IF preset = DEFAULT_PROMPT THEN system_message
    ELSE ""

\* system message of the request (GroqAPIVLM lines 128-131)
VLMSystemMessage(options, preset, system_message) ==
    IF preset = DEFAULT_PROMPT THEN system_message
    ELSE get_prompt_content(options, preset)

LLMMessages(system_message, user_input) ==
    <<[role |-> "system", content |-> system_message],
      [role |-> "user", content |-> user_input]>>

\* images a caller passes
Images == {"None", "NotATensor", "Tensor"}

\* `image is not None and isinstance(image, torch.Tensor)`
\* a mutation: only the None test
IsTensorImage_NotNone(image) == image # "None"

IsTensorImage(image) == image = "Tensor"

\* what encode_image(tensor_to_pil(image)) can return: base64 text, or an
\* empty text when the encoding fails
Base64Images == {"b64", ""}

\* a mutation: the image part is built whatever the encoding returned
VLMMessages_Unchecked(system_message, user_input, base64_image) ==
    <<[role |-> "user",
       content |-> <<[type |-> "text",
                      text |-> <<system_message, "\n", user_input>>],
                     [type |-> "image_url", url |-> base64_image]>>]>>

\* messages of the vision request: one user message with text and image, or
\* none when the image did not encode
VLMMessages(system_message, user_input, base64_image) ==
    IF base64_image # ""
    THEN <<[role |-> "user",
            content |-> <<[type |-> "text",
                           text |-> <<system_message, "\n", user_input>>],
                          [type |-> "image_url", url |-> base64_image]>>]>>
    ELSE <<>>

\* --------------------------------------------------------------- the state
VARIABLES
    kind,               \* "LLM" (GroqAPILLM) or "VLM" (GroqAPIVLM)
    api_keys,           \* self.api_keys
    current_key_index,  \* self.current_key_index (0-based)
    prompt_options,     \* self.prompt_options
    pc,                 \* "idle", "loop", "done" (returned), "raised"
    args,               \* arguments of the current or last invocation
    start,              \* cursor when that invocation began
    messages,           \* data['messages'] of that invocation
    outcomes,           \* per attempt: what its requests.post came back with
    calls,              \* the requests.post calls it issued
    result,             \* the tuple it returned
    rotations           \* rate-limit failures handled since construction

vars == <<kind, api_keys, current_key_index, prompt_options, pc, args, start,
          messages, outcomes, calls, result, rotations>>

NoArgs == [preset |-> "", system_message |-> "", user_input |-> "",
           image |-> "None", base64_image |-> "", max_retries |-> 1]

\* __init__
Init ==
    /\ kind \in {"LLM", "VLM"}
    /\ \E p1 \in ConfigFiles, p2 \in ConfigFiles :
           api_keys = load_api_keys(<<p1, p2>>)
    /\ current_key_index = 0
    /\ \E f1 \in PromptFiles, f2 \in PromptFiles :
           prompt_options = load_prompt_options(<<f1, f2>>)
    /\ pc = "idle"
    /\ args = NoArgs
    /\ start = 0
    /\ messages = <<>>
    /\ outcomes = <<>>
    /\ calls = <<>>
    /\ result = NoResult
    /\ rotations = 0

Idle == pc \in {"idle", "done", "raised"} /\ rotations < MaxRotations

\* GroqAPILLM.process_completion_request up to the retry loop
LLMProcessCompletionRequest ==
    /\ kind = "LLM"
    /\ Idle
    /\ \E preset \in Presets, system_message \in SystemMessages,
          user_input \in UserInputs, max_retries \in 1..MaxRetries :
           /\ args' = [preset |-> preset, system_message |-> system_message,
                       user_input |-> user_input, image |-> "None",
                       base64_image |-> "", max_retries |-> max_retries]
           /\ messages' = LLMMessages(
                  LLMSystemMessage(prompt_options, preset, system_message),
                  user_input)
    /\ start' = current_key_index
    /\ outcomes' = <<>>
    /\ calls' = <<>>
    /\ result' = NoResult
    /\ pc' = "loop"
    /\ UNCHANGED <<kind, api_keys, current_key_index, prompt_options, rotations>>

\* GroqAPIVLM.process_completion_request up to the retry loop, or its early
\* return when no tensor image is supplied
VLMProcessCompletionRequest ==
    /\ kind = "VLM"
    /\ Idle
    /\ \E preset \in Presets, system_message \in SystemMessages,
          user_input \in UserInputs, max_retries \in 1..MaxRetries,
          image \in Images :
       \E base64_image \in IF IsTensorImage(image) THEN Base64Images ELSE {""} :
           /\ args' = [preset |-> preset, system_message |-> system_message,
                       user_input |-> user_input, image |-> image,
                       base64_image |-> base64_image,
                       max_retries |-> max_retries]
           /\ IF IsTensorImage(image)
              THEN /\ messages' = VLMMessages(
                          VLMSystemMessage(prompt_options, preset, system_message),
                          user_input, base64_image)
                   /\ result' = NoResult
                   /\ pc' = "loop"
              ELSE /\ messages' = <<>>
                   /\ result' = ImageRequiredResult
                   /\ pc' = "done"
    /\ start' = current_key_index
    /\ outcomes' = <<>>
    /\ calls' = <<>>
    /\ UNCHANGED <<kind, api_keys, current_key_index, prompt_options, rotations>>

\* the modelled responses that are rate-limit failures: a caught request
\* error whose text contains 'rate limit' in any letter case
RateLimitFailures ==
    {[type |-> "exc", status |-> 0, reason |-> TxtRateLimitMixed,
      body |-> NotJsonBody],
     [type |-> "resp", status |-> 429, reason |-> ReasonRateLimitUpper,
      body |-> NoChoicesBody]}

\* the modelled responses that succeed: no error status and a complete body
Successes ==
    {r \in Responses :
         r.type = "resp" /\ r.status \in 200..299 /\ r.body.has_content}

\* what an attempt's response is, told from the response itself
Class(r) ==
    IF r \in RateLimitFailures THEN "rate_limit"
    ELSE IF r \in Successes THEN "success"
    ELSE "other"

\* the record of one attempt: its class and, for a success, the status code
\* and the content of the response
Observed(r) ==
    [class |-> Class(r),
     status |-> IF r \in Successes THEN r.status ELSE 0,
     content |-> IF r \in Successes THEN r.body.content ELSE ""]

\* whether the installed requests raises a RequestException from
\* response.json(); it matters only for a body that is not JSON
JsonErrorBuilds(r) ==
    IF r.type = "resp" /\ ~r.body.valid_json THEN BOOLEAN ELSE {TRUE}

\* one iteration of `for _ in range(max_retries)`, and, when the last
\* iteration fails, the statements after the loop
Attempt(r, json_error_is_request_exception) ==
    LET outcome == TryOutcome(r, json_error_is_request_exception)
        last == Len(calls) + 1 = args.max_retries
    IN  /\ pc = "loop"
        /\ calls' = Append(calls, [index |-> current_key_index,
                                   key |-> api_keys[current_key_index + 1],
                                   messages |-> messages])
        /\ outcomes' = Append(outcomes, Observed(r))
        /\ IF outcome.tag = "return"
           THEN /\ result' = SuccessResult(r)
                /\ pc' = "done"
                /\ UNCHANGED <<current_key_index, rotations>>
           ELSE IF outcome.tag = "raise"
           THEN /\ pc' = "raised"
                /\ UNCHANGED <<result, current_key_index, rotations>>
           ELSE /\ current_key_index' =
                       IndexAfterFailure(current_key_index, api_keys, outcome.text)
                /\ rotations' = IF r \in RateLimitFailures
                                THEN rotations + 1 ELSE rotations
                /\ IF last
                   THEN result' = MaxRetriesResult /\ pc' = "done"
                   ELSE UNCHANGED <<result, pc>>
        /\ UNCHANGED <<kind, api_keys, prompt_options, args, start, messages>>

\* the retry loop of GroqAPILLM
LLMAttempt ==
    /\ kind = "LLM"
    /\ \E r \in Responses : \E j \in JsonErrorBuilds(r) : Attempt(r, j)

\* the retry loop of GroqAPIVLM
VLMAttempt ==
    /\ kind = "VLM"
    /\ \E r \in Responses : \E j \in JsonErrorBuilds(r) : Attempt(r, j)

Next ==
    \/ LLMProcessCompletionRequest
    \/ VLMProcessCompletionRequest
    \/ LLMAttempt
    \/ VLMAttempt

Spec == Init /\ [][Next]_vars

\* ------------------------------------------------------------- properties
PoolSize == Len(api_keys)
Exhausted == pc = "done" /\ Len(outcomes) = args.max_retries
AllOutcomes(tag) == \A k \in 1..Len(outcomes) : outcomes[k].class = tag
RateLimitsBefore(k) ==
    Cardinality({i \in 1..(k - 1) : outcomes[i].class = "rate_limit"})
MaxRetriesTuple ==
    <<"Max retries reached. Unable to complete the request.", FALSE,
      [type |-> "str", value |-> "429 Too Many Requests"]>>
ImageRequiredTuple ==
    <<"Image is required for VLM models.", FALSE,
      [type |-> "str", value |-> "400 Bad Request"]>>

\* C1: while every attempt of an invocation is a rate-limit failure, the
\* cursor has advanced once per attempt (mod pool size), attempt k used the
\* credential at index (start + k - 1) mod n, and when the budget is spent
\* the invocation returns the max-retries tuple with "429 Too Many Requests".
C1_RateLimitRotation ==
    (pc \in {"loop", "done"} /\ AllOutcomes("rate_limit")) =>
        /\ current_key_index = (start + Len(outcomes)) % PoolSize
        /\ Len(calls) = Len(outcomes)
        /\ \A k \in 1..Len(calls) :
               /\ calls[k].index = (start + k - 1) % PoolSize
               /\ calls[k].key = api_keys[((start + k - 1) % PoolSize) + 1]
        /\ Exhausted => result = MaxRetriesTuple

C1_Witness ==
    /\ Exhausted
    /\ args.max_retries = 3
    /\ AllOutcomes("rate_limit")
    /\ PoolSize = 2
    /\ start = 1

\* C2: no invocation of process_completion_request raises to its caller.
C2_NeverRaises == pc # "raised"

\* C3: a successful attempt (no error status, body with
\* choices[0].message.content) is the last attempt of its invocation: the
\* invocation has returned (content, true, that response's status code),
\* and a success at the first attempt leaves one call and the cursor as it was.
C3_SuccessReturnsAtOnce ==
    \A k \in 1..Len(outcomes) :
        outcomes[k].class = "success" =>
            /\ k = Len(outcomes)
            /\ Len(calls) = k
            /\ pc = "done"
            /\ result[1] = outcomes[k].content
            /\ result[2] = TRUE
            /\ result[3].value = outcomes[k].status
            /\ (k = 1 => current_key_index = start)

C3_Witness ==
    /\ Len(outcomes) = 1
    /\ outcomes[1].class = "success"
    /\ outcomes[1].status = 201
    /\ start > 0
    /\ args.max_retries = 3

\* C4: when every attempt of an invocation is a caught failure that is not a
\* rate-limit failure, all max_retries calls used the credential the
\* invocation started with, the cursor is unchanged, and the result is the
\* max-retries tuple with "429 Too Many Requests".
C4_OtherFailuresKeepCredential ==
    (Exhausted /\ AllOutcomes("other")) =>
        /\ Len(calls) = args.max_retries
        /\ \A k \in 1..Len(calls) :
               calls[k].index = start /\ calls[k].key = api_keys[start + 1]
        /\ current_key_index = start
        /\ result = MaxRetriesTuple

C4_Witness ==
    /\ Exhausted
    /\ AllOutcomes("other")
    /\ args.max_retries = 3
    /\ PoolSize >= 2

\* C5: the pool is never empty and the cursor is a valid 0-based index of it.
C5_CursorInRange ==
    /\ PoolSize >= 1
    /\ current_key_index \in 0..(PoolSize - 1)

C5_Witness ==
    /\ PoolSize >= 2
    /\ rotations = PoolSize
    /\ current_key_index = 0

\* C6: the third element of every returned tuple is a string.
C6_StatusCodeIsString == pc = "done" => result[3].type = "str"

\* C7: the vision node called without a tensor image returns the
\* image-required tuple with "400 Bad Request", issues no request and leaves
\* the cursor alone.
C7_NoImageEarlyReturn ==
    (kind = "VLM" /\ pc # "idle" /\ args.image \in {"None", "NotATensor"}) =>
        /\ pc = "done"
        /\ result = ImageRequiredTuple
        /\ calls = <<>>
        /\ current_key_index = start

C7_Witness ==
    /\ kind = "VLM"
    /\ pc = "done"
    /\ args.image = "NotATensor"
    /\ args.max_retries = 3
    /\ start > 0

\* the system message carried by the request of the current invocation
UsedSystemMessage ==
    IF kind = "LLM" THEN messages[1].content
    ELSE messages[1].content[1].text[1]

\* C8: the system message of the request is the caller's text when the
\* preset is the sentinel (whatever the mapping holds), the mapping's value
\* when the preset is one of its keys, and the empty text otherwise.
C8_PresetResolution ==
    (pc # "idle" /\ messages # <<>>) =>
        /\ args.preset = DEFAULT_PROMPT =>
               UsedSystemMessage = args.system_message
        /\ (args.preset # DEFAULT_PROMPT /\ args.preset \in DOMAIN prompt_options) =>
               UsedSystemMessage = prompt_options[args.preset]
        /\ (args.preset # DEFAULT_PROMPT /\ args.preset \notin DOMAIN prompt_options) =>
               UsedSystemMessage = ""

C8_Witness ==
    /\ pc = "loop"
    /\ kind = "VLM"
    /\ args.preset = DEFAULT_PROMPT
    /\ DEFAULT_PROMPT \in DOMAIN prompt_options

\* C9: the cursor is never reset: it always equals the number of rate-limit
\* failures handled since construction, mod the pool size (so it stays 0 in
\* a pool of one).
C9_CursorCountsRateLimits ==
    /\ current_key_index = rotations % PoolSize
    /\ PoolSize = 1 => current_key_index = 0

C9_Witness ==
    /\ PoolSize = 3
    /\ start = 1
    /\ pc = "done"
    /\ Len(outcomes) = 3
    /\ outcomes[1].class = "rate_limit"
    /\ outcomes[2].class = "other"
    /\ outcomes[3].class = "rate_limit"

\* C10: a vision invocation whose tensor image encodes to an empty text does
\* not return early: it enters the loop with an empty messages list, every
\* request carries that empty list, at most max_retries requests are made
\* and the credential of each follows the rate-limit failures before it.
C10_EmptyEncodingStillRequests ==
    (kind = "VLM" /\ pc # "idle" /\ args.image = "Tensor" /\ args.base64_image = "") =>
        /\ messages = <<>>
        /\ result # ImageRequiredTuple
        /\ Len(calls) <= args.max_retries
        /\ (pc = "done" => Len(calls) >= 1)
        /\ (calls = <<>> => pc = "loop")
        /\ \A k \in 1..Len(calls) :
               /\ calls[k].messages = <<>>
               /\ calls[k].index = (start + RateLimitsBefore(k)) % PoolSize

C10_Witness ==
    /\ kind = "VLM"
    /\ args.image = "Tensor"
    /\ args.base64_image = ""
    /\ Exhausted
    /\ args.max_retries = 3
    /\ PoolSize >= 2
    /\ outcomes[1].class = "rate_limit"

====
